---- MODULE Spec2Model ----
(***************************************************************************)
(* Model of the clipping-legislativo-faciap ingestion pipeline.            *)
(*                                                                         *)
(*   SpecGuard    - the execution guard of scr/automation/scheduler.py     *)
(*                  (lock file, liveness probe, signals) together with the *)
(*                  standalone entry point run_automation.main, as         *)
(*                  interleaved operating-system processes.                *)
(*   SpecStore    - the SQLite store of scr/database.py, with two          *)
(*                  connections writing concurrently.                      *)
(*   SpecPipeline - ClippingPipeline.executar_completo of scr/pipeline.py  *)
(*                  running its stages against the store.                  *)
(***************************************************************************)
EXTENDS Integers, Sequences, FiniteSets, TLC

VARIABLES
    \* ---- execution guard (scheduler.py, run_automation.py)
    lock_file,      \* content of data/automation.lock: "nofile", "empty" or a PID
    alive,          \* alive[p]: the operating-system process p exists
    user,           \* user[p]: the account process p runs under
    pc,             \* pc[p]: where process p stands
    running,        \* running[p]: AutomationScheduler.running
    pid_read,       \* pid_read[p]: the PID is_already_running read from the file
    fd,             \* fd[p]: the file object create_lock holds open
    wrote,          \* wrote[p]: the current run of p has written to the store
    started_held,   \* started_held[p]: the lock named a live process when the run started
    outcome,        \* outcome[p]: how the last job of p ended
    \* ---- store (database.py)
    noticias,       \* rows of table noticias
    noticia_seq,    \* AUTOINCREMENT sequence of noticias: the largest id ever given
    scoring,        \* committed rows of table scoring
    scoring_seq,    \* AUTOINCREMENT sequence of scoring
    db_writer,      \* the connection holding SQLite's write lock, or "none"
    tx,             \* tx[c]: the open write transaction of connection c
    res,            \* res[c]: what the last store call of connection c returned
    last_scored,    \* last_scored[n]: scoring_data of the last committed insert_scoring(n)
    \* ---- pipeline (pipeline.py)
    stage,          \* where executar_completo stands
    run_no,         \* number of calls of executar_completo on this instance
    dictionary,     \* FACIAPScoring.dictionary_df: "none", "empty" or "loaded"
    limits,         \* limite_extracao / limite_scoring of this run: as passed by
                    \* the caller (passed_*) and as in force after line 46-47
    stats,          \* ClippingPipeline.stats, the counters of the instance
    stats_iniciais, \* total_noticias of get_stats() at the start of the run
    src_idx,        \* position of the collect loop in the scrapers
    src_result,     \* src_result[s]: how source s fared in this run
    coletas,        \* rows appended to table coletas since the run began
    batch,          \* the rows fetched by the stage in progress (ids)
    attempted,      \* ids the stage in progress has passed to its per-item step
    stage_log,      \* the stages this run has entered, in order
    summary,        \* what the last executar_completo returned (<<>>: nothing yet)
    \* ---- standalone entry point (run_automation.py)
    main_pc,        \* where main() stands
    args,           \* the parsed --force and --dry-run
    agora,          \* datetime.now(America/Sao_Paulo) as is_business_hours reads it
    exit_code,      \* what main() returned (-1: nothing yet)
    \* ---- scoring (scoring.py)
    dictionary_df,  \* the rows of the dictionary, in file order
    counts,         \* counts[i]: occurrences of the term of row i in the text
    resultado_scoring, \* what the last score_content returned (<<>>: nothing yet)
    classified,     \* the last two calls of _classify_relevance, latest first
    termo_row,      \* the dictionary row given to _analyze_term
    texto,          \* f"{titulo} {conteudo}" of the text being scored, as characters
    termo_count     \* count of _analyze_term for termo_row in texto (-1: not run)

guardVars == <<lock_file, alive, user, pc, running, pid_read, fd, wrote,
               started_held, outcome>>

storeVars == <<noticias, noticia_seq, scoring, scoring_seq, db_writer, tx, res,
               last_scored>>

pipeVars == <<stage, run_no, dictionary, limits, stats, stats_iniciais, src_idx,
              src_result, coletas, batch, attempted, stage_log, summary>>

cliVars == <<main_pc, args, agora, exit_code>>

scoreVars == <<dictionary_df, counts, resultado_scoring, classified,
               termo_row, texto, termo_count>>

nonGuardVars == <<storeVars, pipeVars, cliVars, scoreVars>>

nonStoreVars == <<guardVars, pipeVars, cliVars, scoreVars>>

\* What a pipeline run leaves alone: the guard, and the parts of the store
\* that only the two-connection model of insert_scoring uses.
nonPipeVars == <<guardVars, db_writer, tx, res, last_scored, cliVars, scoreVars>>

\* What main() leaves alone outside its call of the pipeline.
nonCliVars == <<guardVars, storeVars, pipeVars, scoreVars>>

\* What the scorer leaves alone.
nonScoreVars == <<guardVars, storeVars, pipeVars, cliVars>>

vars == <<guardVars, storeVars, pipeVars, cliVars, scoreVars>>

-----------------------------------------------------------------------------
(***************************************************************************)
(* Execution guard                                                         *)
(***************************************************************************)

\* Processes that run AutomationScheduler (scheduled jobs or --once).
Schedulers == {"s1", "s2"}

\* A process that runs run_automation.main.
Clis == {"cli"}

Procs == Schedulers \cup Clis

\* Accounts a process may run under; os.kill(pid, 0) on a process of another
\* (unprivileged) account raises PermissionError.
Users == {"faciap", "other"}

NoFile == "nofile"
EmptyFile == "empty"

\* The lock file names a live process other than p.
HeldByLiveOther(p) ==
    /\ lock_file \in Procs
    /\ lock_file # p
    /\ alive[lock_file]

\* Path.unlink on the lock file: the path is gone, and a file object another
\* process still holds open for writing now refers to an unlinked file.
Unlinked(f) == [q \in Procs |-> IF f[q] = "linked" THEN "orphan" ELSE f[q]]

\* The bookkeeping of a run that is over: wrote and started_held describe
\* the current run only.
RunOver(f, p) == [f EXCEPT ![p] = FALSE]

\* schedule.run_pending() / run_once call execute_pipeline_job, whose first
\* statement is is_already_running: `if not self.lock_file.exists(): return False`.
StartJob(p) ==
    /\ p \in Schedulers
    /\ alive[p]
    /\ pc[p] = "idle"
    /\ started_held' = [started_held EXCEPT ![p] = HeldByLiveOther(p)]
    /\ wrote' = [wrote EXCEPT ![p] = FALSE]
    /\ outcome' = [outcome EXCEPT ![p] = "none"]
    /\ pc' = [pc EXCEPT ![p] = IF lock_file = NoFile THEN "create_lock" ELSE "read_pid"]
    /\ UNCHANGED <<lock_file, alive, user, running, pid_read, fd>>
    /\ UNCHANGED nonGuardVars

\* is_already_running: open and read the file, int() of its content.
\* A vanished file (FileNotFoundError, an OSError) and unparsable content
\* (ValueError) both land in the except clause.
ReadPid(p) ==
    /\ alive[p]
    /\ pc[p] = "read_pid"
    /\ IF lock_file \in Procs
       THEN /\ pid_read' = [pid_read EXCEPT ![p] = lock_file]
            /\ pc' = [pc EXCEPT ![p] = "probe"]
       ELSE /\ pid_read' = [pid_read EXCEPT ![p] = "none"]
            /\ pc' = [pc EXCEPT ![p] = "unlink_stale"]
    /\ UNCHANGED <<lock_file, alive, user, running, fd, wrote, started_held, outcome>>
    /\ UNCHANGED nonGuardVars

\* os.kill(pid, 0): ProcessLookupError when no such process, PermissionError
\* when the process exists but belongs to another account, nothing otherwise.
ProbeResult(p, q) ==
    IF ~alive[q] THEN "ProcessLookupError"
    ELSE IF user[q] # user[p] THEN "PermissionError"
    ELSE "ok"

\* is_already_running, lines 63-69: `return True` after a successful probe,
\* the except clause (ProcessLookupError, ValueError, OSError) otherwise.
\* On True execute_pipeline_job logs the skip and returns.
Probe(p) ==
    /\ alive[p]
    /\ pc[p] = "probe"
    /\ IF ProbeResult(p, pid_read[p]) = "ok"
       THEN /\ pc' = [pc EXCEPT ![p] = "idle"]
            /\ outcome' = [outcome EXCEPT ![p] = "skipped"]
            /\ started_held' = RunOver(started_held, p)
            /\ pid_read' = [pid_read EXCEPT ![p] = "none"]
       ELSE /\ pc' = [pc EXCEPT ![p] = "unlink_stale"]
            /\ UNCHANGED <<outcome, started_held, pid_read>>
    /\ UNCHANGED <<lock_file, alive, user, running, fd, wrote>>
    /\ UNCHANGED nonGuardVars

\* is_already_running, the except clause: unlink(missing_ok=True), return False.
UnlinkStale(p) ==
    /\ alive[p]
    /\ pc[p] = "unlink_stale"
    /\ lock_file' = NoFile
    /\ fd' = IF lock_file = NoFile THEN fd ELSE Unlinked(fd)
    /\ pc' = [pc EXCEPT ![p] = "create_lock"]
    /\ pid_read' = [pid_read EXCEPT ![p] = "none"]
    /\ UNCHANGED <<alive, user, running, wrote, started_held, outcome>>
    /\ UNCHANGED nonGuardVars

\* create_lock: open(self.lock_file, 'w') creates or truncates the file.
CreateLockOpen(p) ==
    /\ alive[p]
    /\ pc[p] = "create_lock"
    /\ lock_file' = EmptyFile
    /\ fd' = [fd EXCEPT ![p] = "linked"]
    /\ pc' = [pc EXCEPT ![p] = "create_lock_write"]
    /\ UNCHANGED <<alive, user, running, pid_read, wrote, started_held, outcome>>
    /\ UNCHANGED nonGuardVars

\* create_lock: f.write(str(os.getpid())) and the close at the end of `with`.
\* The text reaches the lock path only if the file was not unlinked meanwhile.
CreateLockWrite(p) ==
    /\ alive[p]
    /\ pc[p] = "create_lock_write"
    /\ lock_file' = IF fd[p] = "linked" THEN p ELSE lock_file
    /\ fd' = [fd EXCEPT ![p] = "closed"]
    /\ pc' = [pc EXCEPT ![p] = "pipeline"]
    /\ UNCHANGED <<alive, user, running, pid_read, wrote, started_held, outcome>>
    /\ UNCHANGED nonGuardVars

\* Inside self.pipeline.executar_completo(...): a stage writes to the store.
PipelineWrite(p) ==
    /\ alive[p]
    /\ pc[p] = "pipeline"
    /\ ~wrote[p]
    /\ wrote' = [wrote EXCEPT ![p] = TRUE]
    /\ UNCHANGED <<lock_file, alive, user, pc, running, pid_read, fd, started_held, outcome>>
    /\ UNCHANGED nonGuardVars

\* Where control goes when the try block of execute_pipeline_job is left by a
\* return of executar_completo: the finally clause, remove_lock.
AfterPipelineMutant(p, how) == IF how = "success" THEN "remove_lock" ELSE "idle"

AfterPipeline(p, how) == "remove_lock"

\* executar_completo returns (sucesso true or false) or an exception leaves the
\* try block (`except Exception` logs it); the finally clause runs either way.
PipelineEnd(p) ==
    /\ p \in Schedulers
    /\ alive[p]
    /\ pc[p] = "pipeline"
    /\ \E how \in {"success", "failure", "exception"} :
          /\ outcome' = [outcome EXCEPT ![p] = how]
          /\ pc' = [pc EXCEPT ![p] = AfterPipeline(p, how)]
    /\ UNCHANGED <<lock_file, alive, user, running, pid_read, fd, wrote, started_held>>
    /\ UNCHANGED nonGuardVars

\* remove_lock: `if self.lock_file.exists():`
RemoveLockExists(p) ==
    /\ alive[p]
    /\ pc[p] = "remove_lock"
    /\ IF lock_file = NoFile
       THEN /\ pc' = [pc EXCEPT ![p] = "idle"]
            /\ wrote' = RunOver(wrote, p)
            /\ started_held' = RunOver(started_held, p)
       ELSE /\ pc' = [pc EXCEPT ![p] = "remove_unlink"]
            /\ UNCHANGED <<wrote, started_held>>
    /\ UNCHANGED <<lock_file, alive, user, running, pid_read, fd, outcome>>
    /\ UNCHANGED nonGuardVars

\* remove_lock: self.lock_file.unlink(). Without missing_ok a file that
\* vanished since the exists() test raises FileNotFoundError out of the job,
\* which the scheduler loop logs; the job is over in both cases.
RemoveLockUnlink(p) ==
    /\ alive[p]
    /\ pc[p] = "remove_unlink"
    /\ lock_file' = NoFile
    /\ fd' = IF lock_file = NoFile THEN fd ELSE Unlinked(fd)
    /\ pc' = [pc EXCEPT ![p] = "idle"]
    /\ wrote' = RunOver(wrote, p)
    /\ started_held' = RunOver(started_held, p)
    /\ UNCHANGED <<alive, user, running, pid_read, outcome>>
    /\ UNCHANGED nonGuardVars

\* The positions of execute_pipeline_job that lie inside its try block.
InTry(p) == pc[p] \in {"create_lock_write", "pipeline", "pipeline_item"}

\* Inside executar_completo a loop turns to its next row: the per-item step
\* (extract_content and update_noticia_content, or score_content and
\* insert_scoring) begins. The loops test no flag before a row.
ItemStart(p) ==
    /\ p \in Schedulers
    /\ alive[p]
    /\ pc[p] = "pipeline"
    /\ pc' = [pc EXCEPT ![p] = "pipeline_item"]
    /\ UNCHANGED <<lock_file, alive, user, running, pid_read, fd, wrote, started_held, outcome>>
    /\ UNCHANGED nonGuardVars

\* The per-item step returns, or raises an Exception that the except clause
\* of the loop logs: the loop is between two rows again.
ItemEnd(p) ==
    /\ p \in Schedulers
    /\ alive[p]
    /\ pc[p] = "pipeline_item"
    /\ pc' = [pc EXCEPT ![p] = "pipeline"]
    /\ wrote' = [wrote EXCEPT ![p] = TRUE]
    /\ UNCHANGED <<lock_file, alive, user, running, pid_read, fd, started_held, outcome>>
    /\ UNCHANGED nonGuardVars

\* SIGINT / SIGTERM: _signal_handler calls stop() (running = False, remove_lock,
\* close_session) and then sys.exit(0). SystemExit is no Exception: it passes
\* the `except Exception` clauses and runs the finally clause of the job when
\* the signal arrived inside the try block.
SignalHandler(p) ==
    /\ p \in Schedulers
    /\ alive[p]
    /\ pc[p] # "exit_finally"
    /\ running' = [running EXCEPT ![p] = FALSE]
    /\ lock_file' = NoFile
    /\ fd' = [q \in Procs |->
                IF q = p THEN "closed"
                ELSE IF lock_file = NoFile THEN fd[q] ELSE Unlinked(fd)[q]]
    /\ pid_read' = [pid_read EXCEPT ![p] = "none"]
    /\ outcome' = [outcome EXCEPT ![p] = IF pc[p] = "idle" THEN outcome[p] ELSE "signal"]
    /\ IF InTry(p)
       THEN /\ pc' = [pc EXCEPT ![p] = "exit_finally"]
            /\ UNCHANGED alive
       ELSE /\ pc' = [pc EXCEPT ![p] = "exited"]
            /\ alive' = [alive EXCEPT ![p] = FALSE]
    /\ wrote' = RunOver(wrote, p)
    /\ started_held' = RunOver(started_held, p)
    /\ UNCHANGED user
    /\ UNCHANGED nonGuardVars

\* The SystemExit of the handler is raised inside a bare `except:` of the
\* running scraper (BaseScraper._extract_date_from_text) and swallowed there:
\* stop() has run, the process goes on with the pipeline.
SignalSwallowed(p) ==
    /\ p \in Schedulers
    /\ alive[p]
    /\ pc[p] = "pipeline"
    /\ running[p]
    /\ running' = [running EXCEPT ![p] = FALSE]
    /\ lock_file' = NoFile
    /\ fd' = IF lock_file = NoFile THEN fd ELSE Unlinked(fd)
    /\ UNCHANGED <<alive, user, pc, pid_read, wrote, started_held, outcome>>
    /\ UNCHANGED nonGuardVars

\* SystemExit unwinding through the finally clause of execute_pipeline_job:
\* remove_lock once more, then the process ends.
ExitFinally(p) ==
    /\ alive[p]
    /\ pc[p] = "exit_finally"
    /\ lock_file' = NoFile
    /\ fd' = IF lock_file = NoFile THEN fd ELSE Unlinked(fd)
    /\ pc' = [pc EXCEPT ![p] = "exited"]
    /\ alive' = [alive EXCEPT ![p] = FALSE]
    /\ UNCHANGED <<user, running, pid_read, wrote, started_held, outcome>>
    /\ UNCHANGED nonGuardVars

\* The process is ended from outside without running any of its code
\* (SIGKILL, out of memory, power loss): the lock file stays as it is.
Crash(p) ==
    /\ p \in Schedulers
    /\ alive[p]
    /\ pc[p] \notin {"idle", "exit_finally"}
    /\ alive' = [alive EXCEPT ![p] = FALSE]
    /\ pc' = [pc EXCEPT ![p] = "crashed"]
    /\ fd' = [fd EXCEPT ![p] = "closed"]
    /\ pid_read' = [pid_read EXCEPT ![p] = "none"]
    /\ outcome' = [outcome EXCEPT ![p] = "crashed"]
    /\ running' = [running EXCEPT ![p] = FALSE]
    /\ wrote' = RunOver(wrote, p)
    /\ started_held' = RunOver(started_held, p)
    /\ UNCHANGED <<lock_file, user>>
    /\ UNCHANGED nonGuardVars

\* run_automation.main with --force or inside the business-hours window:
\* it builds ClippingPipeline and calls executar_completo; the lock file is
\* neither read nor written.
CliStart(p) ==
    /\ p \in Clis
    /\ alive[p]
    /\ pc[p] = "idle"
    /\ started_held' = [started_held EXCEPT ![p] = HeldByLiveOther(p)]
    /\ pc' = [pc EXCEPT ![p] = "pipeline"]
    /\ UNCHANGED <<lock_file, alive, user, running, pid_read, fd, wrote, outcome>>
    /\ UNCHANGED nonGuardVars

\* run_automation.main returns 0 or 1 and the interpreter exits.
CliEnd(p) ==
    /\ p \in Clis
    /\ alive[p]
    /\ pc[p] = "pipeline"
    /\ \E how \in {"success", "failure", "exception"} :
          outcome' = [outcome EXCEPT ![p] = how]
    /\ pc' = [pc EXCEPT ![p] = "exited"]
    /\ alive' = [alive EXCEPT ![p] = FALSE]
    /\ wrote' = RunOver(wrote, p)
    /\ started_held' = RunOver(started_held, p)
    /\ UNCHANGED <<lock_file, user, running, pid_read, fd>>
    /\ UNCHANGED nonGuardVars

-----------------------------------------------------------------------------
(***************************************************************************)
(* Store (scr/database.py)                                                 *)
(***************************************************************************)

\* Connections to the SQLite file; every DatabaseManager method opens its own.
Conns == {"c1", "c2"}

\* Links (URLs) of news items.
Links == {"l1", "l2"}

\* The dict handed to insert_noticia has no such key.
Missing == "<missing>"

\* SQL NULL / Python None.
None == "<None>"

Titulos == {"t1", "t2"}

Fontes == {"camara_dos_deputados", "senado_federal", "agencia_gov"}

\* Values of data_coleta (ISO timestamps, compared as text by ORDER BY);
\* 0 stands for an item without data_coleta.
Times == {1, 2}

\* Largest id table noticias gives out in the model.
MaxNoticiaId == 2

\* Largest id table scoring gives out in the model.
MaxScoringId == 3

NoticiaIds == 1..MaxNoticiaId

\* The scoring_data of one score_content result, as a whole.
ScoreVals == {"v1", "v2"}

\* What a scraper puts in a news item (camara.py:86-93): the other columns
\* of the INSERT take the defaults of noticia_data.get.
Items ==
    { [titulo |-> v[1], link |-> l, fonte |-> "camara_dos_deputados", data_coleta |-> v[2]] :
        v \in {<<"t1", 1>>, <<"t2", 2>>, <<"t1", 0>>}, l \in Links \cup {Missing} }

\* noticia_data.get('link', ''): the value bound to the INSERT.
LinkStored(item) == IF item.link = Missing THEN "" ELSE item.link

\* noticia_data.get('link'): the value bound to the SELECT of the except clause.
LinkLookup(item) == IF item.link = Missing THEN None ELSE item.link

\* The NOT NULL columns of noticias (titulo, link, fonte, data_coleta) all
\* have a value.
NotNullOk(item) ==
    /\ item.titulo # None
    /\ LinkStored(item) # None
    /\ item.fonte # None
    /\ item.data_coleta # 0

\* SELECT id FROM noticias WHERE link = ?: the ids found (NULL matches nothing).
IdsOfLink(rows, link) == {r.id : r \in {x \in rows : link # None /\ x.link = link}}

\* link TEXT UNIQUE: the INSERT violates the constraint.
UniqueViolatedMutant(rows, item) == FALSE

UniqueViolated(rows, item) == \E r \in rows : r.link = LinkStored(item)

\* How insert_noticia ends: "new" (row inserted, is_new True), "dup" (the
\* IntegrityError resolved by the lookup, is_new False) or "raise".
InsertNoticiaOutcome(rows, item) ==
    IF NotNullOk(item) /\ ~UniqueViolated(rows, item) THEN "new"
    ELSE IF IdsOfLink(rows, LinkLookup(item)) # {} THEN "dup"
    ELSE "raise"

\* The row the INSERT of insert_noticia creates.
NewRow(id, item) ==
    [id |-> id, titulo |-> item.titulo, link |-> LinkStored(item),
     fonte |-> item.fonte, data_coleta |-> item.data_coleta,
     content_len |-> 0, word_count |-> 0, extraction_success |-> FALSE]

\* The id insert_noticia returns.
InsertNoticiaId(rows, seq, item) ==
    LET how == InsertNoticiaOutcome(rows, item) IN
    IF how = "new" THEN seq + 1
    ELSE IF how = "dup" THEN CHOOSE i \in IdsOfLink(rows, LinkLookup(item)) : TRUE
    ELSE 0

\* Table noticias after insert_noticia.
InsertNoticiaRowsMutant(rows, seq, item) ==
    IF InsertNoticiaOutcome(rows, item) = "new"
    THEN rows \cup {NewRow(seq + 1, item)}
    ELSE {r \in rows : r.link # LinkStored(item)} \cup {NewRow(seq + 1, item)}

InsertNoticiaRows(rows, seq, item) ==
    IF InsertNoticiaOutcome(rows, item) = "new"
    THEN rows \cup {NewRow(seq + 1, item)}
    ELSE rows

NoRes == [op |-> "none", kind |-> "none", id |-> 0, link |-> "", data_coleta |-> 0,
          existed |-> 0, created |-> FALSE, fresh |-> FALSE]

\* DatabaseManager.insert_noticia, as one SQLite statement and its commit.
InsertNoticia(c, item) ==
    /\ noticia_seq < MaxNoticiaId \/ InsertNoticiaOutcome(noticias, item) # "new"
    /\ noticias' = InsertNoticiaRows(noticias, noticia_seq, item)
    /\ noticia_seq' = IF InsertNoticiaOutcome(noticias, item) = "new"
                      THEN noticia_seq + 1 ELSE noticia_seq
    /\ res' = [res EXCEPT ![c] =
                 [op |-> "insert_noticia",
                  kind |-> InsertNoticiaOutcome(noticias, item),
                  id |-> InsertNoticiaId(noticias, noticia_seq, item),
                  link |-> item.link,
                  data_coleta |-> item.data_coleta,
                  existed |-> IF IdsOfLink(noticias, item.link) = {} THEN 0
                              ELSE CHOOSE i \in IdsOfLink(noticias, item.link) : TRUE,
                  created |-> noticias' # noticias,
                  fresh |-> \A r \in noticias :
                               r.id # InsertNoticiaId(noticias, noticia_seq, item)]]
    /\ UNCHANGED <<scoring, scoring_seq, db_writer, tx, last_scored>>
    /\ UNCHANGED nonStoreVars

\* What ContentExtractor.extract_content can return, by the length of the
\* text and its number of words (content_extractor.py:53-70): nothing (also the
\* except path), a short text, a long text of few words, a long text of 31 to
\* 50 words, a long text of more than 50 words.
ExtractShapes ==
    { [content_len |-> 0, word_count |-> 0],
      [content_len |-> 50, word_count |-> 8],
      [content_len |-> 150, word_count |-> 20],
      [content_len |-> 300, word_count |-> 40],
      [content_len |-> 400, word_count |-> 60] }

\* success = bool(content and len(content) > 100 and word_count > 30)
ExtractionSuccess(shape) ==
    shape.content_len > 0 /\ shape.content_len > 100 /\ shape.word_count > 30

\* Table noticias after update_noticia_content(noticia_id, content_data).
UpdateContentRows(rows, id, shape) ==
    { IF r.id = id
      THEN [r EXCEPT !.content_len = shape.content_len,
                     !.word_count = shape.word_count,
                     !.extraction_success = ExtractionSuccess(shape)]
      ELSE r : r \in rows }

\* DatabaseManager.update_noticia_content.
UpdateNoticiaContent(c, id, shape) ==
    /\ noticias' = UpdateContentRows(noticias, id, shape)
    /\ noticias' # noticias
    /\ res' = [res EXCEPT ![c] = NoRes]
    /\ UNCHANGED <<noticia_seq, scoring, scoring_seq, db_writer, tx, last_scored>>
    /\ UNCHANGED nonStoreVars

\* DELETE FROM scoring WHERE noticia_id = ?: the rows left.
RowsAfterDeleteMutant(rows, nid) == rows

RowsAfterDelete(rows, nid) == {r \in rows : r.noticia_id # nid}

\* Table scoring after the DELETE and the INSERT of insert_scoring.
InsertScoringRows(rows, seq, nid, val) ==
    RowsAfterDelete(rows, nid) \cup {[id |-> seq + 1, noticia_id |-> nid, val |-> val]}

NoTx == [pc |-> "idle", nid |-> 0, val |-> "none"]

\* insert_scoring, first statement: sqlite3 opens a transaction before the
\* DELETE, which takes SQLite's write lock. No foreign key is enforced (PRAGMA
\* foreign_keys is never set), so any noticia_id is accepted.
ScoringDelete(c, nid, val) ==
    /\ tx[c].pc = "idle"
    /\ db_writer = "none"
    /\ scoring_seq < MaxScoringId
    /\ db_writer' = c
    /\ tx' = [tx EXCEPT ![c] = [pc |-> "deleted", nid |-> nid, val |-> val]]
    /\ UNCHANGED <<noticias, noticia_seq, scoring, scoring_seq, res, last_scored>>
    /\ UNCHANGED nonStoreVars

\* insert_scoring while another connection holds the write lock: after the
\* busy timeout the DELETE raises OperationalError (database is locked).
ScoringLocked(c, nid) ==
    /\ tx[c].pc = "idle"
    /\ db_writer \notin {"none", c}
    /\ res[c].kind # "raise"
    /\ res' = [res EXCEPT ![c] = [NoRes EXCEPT !.op = "insert_scoring",
                                               !.kind = "raise", !.id = nid]]
    /\ UNCHANGED <<noticias, noticia_seq, scoring, scoring_seq, db_writer, tx, last_scored>>
    /\ UNCHANGED nonStoreVars

\* insert_scoring, second statement: the INSERT, inside the same transaction.
ScoringInsert(c) ==
    /\ tx[c].pc = "deleted"
    /\ tx' = [tx EXCEPT ![c].pc = "inserted"]
    /\ UNCHANGED <<noticias, noticia_seq, scoring, scoring_seq, db_writer, res, last_scored>>
    /\ UNCHANGED nonStoreVars

\* The INSERT (or the commit) raises, e.g. disk full: the `with` block of the
\* connection rolls the transaction back, the DELETE included.
ScoringRollback(c) ==
    /\ tx[c].pc = "deleted"
    /\ db_writer' = "none"
    /\ tx' = [tx EXCEPT ![c] = NoTx]
    /\ res' = [res EXCEPT ![c] = [NoRes EXCEPT !.op = "insert_scoring",
                                               !.kind = "raise", !.id = tx[c].nid]]
    /\ UNCHANGED <<noticias, noticia_seq, scoring, scoring_seq, last_scored>>
    /\ UNCHANGED nonStoreVars

\* insert_scoring, conn.commit(): the DELETE and the INSERT become visible
\* together and the write lock is released.
ScoringCommit(c) ==
    /\ tx[c].pc = "inserted"
    /\ scoring' = InsertScoringRows(scoring, scoring_seq, tx[c].nid, tx[c].val)
    /\ scoring_seq' = scoring_seq + 1
    /\ last_scored' = [last_scored EXCEPT ![tx[c].nid] = tx[c].val]
    /\ db_writer' = "none"
    /\ tx' = [tx EXCEPT ![c] = NoTx]
    /\ res' = [res EXCEPT ![c] = [NoRes EXCEPT !.op = "insert_scoring",
                                               !.kind = "ok", !.id = tx[c].nid]]
    /\ UNCHANGED <<noticias, noticia_seq>>
    /\ UNCHANGED nonStoreVars

-----------------------------------------------------------------------------
(***************************************************************************)
(* Pipeline (scr/pipeline.py)                                              *)
(***************************************************************************)

\* AVAILABLE_SCRAPERS, in the order the dict is built and iterated.
SourceOrder == <<"camara", "senado", "agencia_gov">>

Sources == {SourceOrder[i] : i \in 1..Len(SourceOrder)}

\* The source_name each scraper stamps on its items.
SourceName(src) ==
    CASE src = "camara" -> "camara_dos_deputados"
      [] src = "senado" -> "senado"
      [] OTHER -> "agencia_gov"

\* The links a scraper can return: each site has its own URLs.
LinksOf(src) ==
    CASE src = "camara" -> {"l1"}
      [] src = "senado" -> {"l2"}
      [] OTHER -> {}

\* Longest list of items a scraper returns in the model.
MaxScrape == 1

\* The most calls of executar_completo on one ClippingPipeline instance.
MaxRuns == 2

\* The calls of executar_completo on one ClippingPipeline instance that the
\* model follows; data_coleta of what a run collects is the number of the run.
Runs == 1..MaxRuns

\* Config.MAX_EXTRACTION_PER_RUN and Config.MAX_SCORING_PER_RUN.
MAX_EXTRACTION_PER_RUN == 50

MAX_SCORING_PER_RUN == 100

\* The limits a caller passes in the model (None is handled as 0 is).
LimitInputs == {0, 1}

\* Sequences over S of length at most n.
SeqsUpTo(S, n) == UNION {[1..k -> S] : k \in 0..n}

\* What scraper.scrape(max_pages) can return: a list of links (one page may
\* repeat a link of another page), or it raises.
ScrapeResults(src) == SeqsUpTo(LinksOf(src), MaxScrape)

\* The lists of n items at most among them, for any n.
ScrapeResultsOf(src, n) == SeqsUpTo(LinksOf(src), n)

\* Longest list of items a scraper returns where the collect stage is
\* followed insert by insert.
MaxCollect == 2

\* The news item a scraper builds for a link, collected now.
ItemOf(src, link, now) ==
    [titulo |-> "t1", link |-> link, fonte |-> SourceName(src), data_coleta |-> now]

\* `limite or Config.DEFAULT`
EffectiveLimit(limite, default) == IF limite = 0 THEN default ELSE limite

\* get_noticias_sem_conteudo, WHERE clause.
SemConteudoMutant(rows) == rows

SemConteudo(rows) ==
    {r \in rows : ~r.extraction_success /\ r.content_len < 100}

\* get_noticias_sem_scoring, WHERE clause (LEFT JOIN scoring ... s.id IS NULL).
SemScoringMutant(rows, sco) ==
    {r \in rows : r.extraction_success /\ r.word_count > 50}

SemScoring(rows, sco) ==
    {r \in rows : /\ r.extraction_success
                  /\ r.word_count > 50
                  /\ ~\E x \in sco : x.noticia_id = r.id}

\* ORDER BY data_coleta DESC: every listing of S the clause allows (rows of
\* equal data_coleta come in an order SQLite does not define).
OrderedDesc(S) ==
    {q \in [1..Cardinality(S) -> {r.id : r \in S}] :
        /\ \A i, j \in DOMAIN q : i # j => q[i] # q[j]
        /\ \A i, j \in DOMAIN q : i < j =>
              \A a, b \in S : (a.id = q[i] /\ b.id = q[j]) => a.data_coleta >= b.data_coleta}

\* LIMIT ? (a negative limit is no limit in SQLite)
Take(q, n) == IF n < 0 \/ n >= Len(q) THEN q ELSE SubSeq(q, 1, n)

\* The DataFrames a query can return.
Batches(S, limite) == {Take(q, limite) : q \in OrderedDesc(S)}

NoStats ==
    [coletadas |-> 0, novas |-> 0, ext_proc |-> 0, ext_ok |-> 0,
     sco_proc |-> 0, sco_termos |-> 0]

\* The stage executar_completo enters when the stage `done` has returned.
StageAfterMutant(done) ==
    CASE done = "init" -> "coleta"
      [] done = "coleta" -> "scoring"
      [] done = "scoring" -> "extracao"
      [] done = "extracao" -> "report"
      [] OTHER -> "idle"

StageAfter(done) ==
    CASE done = "init" -> "coleta"
      [] done = "coleta" -> "extracao"
      [] done = "extracao" -> "scoring"
      [] done = "scoring" -> "report"
      [] OTHER -> "idle"

\* executar_completo calls the next stage.
Enter(next) ==
    /\ stage' = next
    /\ stage_log' = IF next = "idle" THEN stage_log ELSE Append(stage_log, next)

\* The dict the `except Exception` clause of executar_completo returns.
FailSummaryMutant(erro) == <<>>

FailSummary(erro) ==
    <<[sucesso |-> FALSE, erro |-> erro, tempo_execucao |-> "until_failure"]>>

\* An exception leaves a stage: executar_completo returns the failure dict
\* without running the stages that remain.
Escapes(erro) ==
    /\ stage' = "idle"
    /\ summary' = FailSummary(erro)
    /\ UNCHANGED stage_log

\* executar_completo is called: the limits take their defaults, the try block
\* is entered.
StartRun(le, ls) ==
    /\ stage = "idle"
    /\ run_no + 1 \in Runs
    /\ run_no' = run_no + 1
    /\ limits' = [ext |-> EffectiveLimit(le, MAX_EXTRACTION_PER_RUN),
                  sco |-> EffectiveLimit(ls, MAX_SCORING_PER_RUN),
                  passed_ext |-> le, passed_sco |-> ls]
    /\ stage' = "init"
    /\ stage_log' = <<>>
    /\ summary' = <<>>
    /\ src_idx' = 0
    /\ src_result' = [s \in Sources |-> "none"]
    /\ coletas' = <<>>
    /\ batch' = <<>>
    /\ attempted' = <<>>
    /\ stats_iniciais' = 0
    /\ UNCHANGED <<dictionary, stats, noticias, noticia_seq, scoring, scoring_seq>>
    /\ UNCHANGED nonPipeVars

\* stats_iniciais = self.db_manager.get_stats(), then _executar_coleta is
\* called and builds the scrapers. `fault`: the store raises.
Initialise(fault) ==
    /\ stage = "init"
    /\ IF fault
       THEN /\ Escapes("get_stats")
            /\ UNCHANGED <<stats_iniciais, src_idx>>
       ELSE /\ stats_iniciais' = Cardinality(noticias)
            /\ src_idx' = 1
            /\ Enter(StageAfter("init"))
            /\ UNCHANGED summary
    /\ UNCHANGED <<run_no, dictionary, limits, stats, src_result, coletas, batch, attempted,
                   noticias, noticia_seq, scoring, scoring_seq>>
    /\ UNCHANGED nonPipeVars

\* The rows of noticias after insert_noticia of the first n items of q.
RECURSIVE RowsAfterInserts(_, _, _, _, _)
RowsAfterInserts(rows, seq, src, q, now) ==
    IF q = <<>> THEN [rows |-> rows, seq |-> seq, novas |-> 0]
    ELSE LET item == ItemOf(src, Head(q), now)
             how == InsertNoticiaOutcome(rows, item)
             rest == RowsAfterInserts(InsertNoticiaRows(rows, seq, item),
                                      IF how = "new" THEN seq + 1 ELSE seq,
                                      src, Tail(q), now)
         IN [rest EXCEPT !.novas = rest.novas + (IF how = "new" THEN 1 ELSE 0)]

\* The row registrar_coleta appends.
ColetaRow(src, coletadas, novas, status) ==
    [fonte |-> src, noticias_coletadas |-> coletadas, noticias_novas |-> novas,
     noticias_duplicadas |-> coletadas - novas, status |-> status]

\* One turn of the loop of _executar_coleta, for the scraper at src_idx.
\*   raises    scrape raises
\*   result    the list scrape returned
\*   ins_fault the insert_noticia call that raises (0: none does)
\*   reg_fault registrar_coleta raises on the success path
\*   err_fault registrar_coleta raises inside the except clause
CollectSource(raises, result, ins_fault, reg_fault, err_fault) ==
    /\ stage = "coleta"
    /\ src_idx \in 1..Len(SourceOrder)
    /\ LET src == SourceOrder[src_idx]
           scraped == ~raises
           tried == IF ~scraped THEN <<>>
                    ELSE IF ins_fault = 0 THEN result
                    ELSE SubSeq(result, 1, ins_fault - 1)
           after == RowsAfterInserts(noticias, noticia_seq, src, tried, run_no)
           inserted == scraped /\ ins_fault = 0
           recorded == inserted /\ ~reg_fault
           last == src_idx = Len(SourceOrder)
       IN
       /\ result \in ScrapeResultsOf(src, Len(result))
       /\ scraped => ins_fault \in 0..Len(result)
       /\ ~scraped => ins_fault = 0 /\ result = <<>>
       /\ ~inserted => ~reg_fault
       /\ recorded => ~err_fault
       /\ after.seq <= MaxNoticiaId
       /\ noticias' = after.rows
       /\ noticia_seq' = after.seq
       /\ stats' = [stats EXCEPT !.coletadas = @ + Len(tried), !.novas = @ + after.novas]
       /\ src_result' = [src_result EXCEPT ![src] =
                           IF ~scraped THEN "raised"
                           ELSE IF ~inserted THEN "insert_failed"
                           ELSE "completed"]
       /\ IF recorded
          THEN /\ coletas' = Append(coletas,
                                    ColetaRow(src, Len(result), after.novas, "success"))
               /\ src_idx' = src_idx + 1
               /\ IF last
                  THEN Enter(StageAfter("coleta")) /\ UNCHANGED summary
                  ELSE UNCHANGED <<stage, stage_log, summary>>
          ELSE IF ~err_fault
          THEN /\ coletas' = Append(coletas, ColetaRow(src, 0, 0, "error"))
               /\ src_idx' = src_idx + 1
               /\ IF last
                  THEN Enter(StageAfter("coleta")) /\ UNCHANGED summary
                  ELSE UNCHANGED <<stage, stage_log, summary>>
          ELSE /\ Escapes("registrar_coleta")
               /\ UNCHANGED <<coletas, src_idx>>
    /\ UNCHANGED <<run_no, dictionary, limits, stats_iniciais, batch, attempted,
                   scoring, scoring_seq>>
    /\ UNCHANGED nonPipeVars

\* _executar_extracao up to its loop: the query, and the early return when
\* the DataFrame is empty. `fault`: the query raises.
ExtractFetch(fault) ==
    /\ stage = "extracao"
    /\ IF fault
       THEN /\ Escapes("get_noticias_sem_conteudo")
            /\ UNCHANGED <<batch, attempted>>
       ELSE \E b \in Batches(SemConteudo(noticias), limits.ext) :
               /\ batch' = b
               /\ attempted' = <<>>
               /\ IF b = <<>>
                  THEN Enter(StageAfter("extracao")) /\ UNCHANGED summary
                  ELSE stage' = "extracao_loop" /\ UNCHANGED <<stage_log, summary>>
    /\ UNCHANGED <<run_no, dictionary, limits, stats, stats_iniciais, src_idx, src_result,
                   coletas, noticias, noticia_seq, scoring, scoring_seq>>
    /\ UNCHANGED nonPipeVars

\* The row of the batch the loop turns to once the per-item step of row i is
\* over, whether the step returned or raised into the except clause of the
\* loop (past the last row: the loop ends).
NextRowMutant(i, raised) == IF raised THEN Len(batch) + 1 ELSE i + 1

NextRow(i, raised) == i + 1

\* One turn of the loop of _executar_extracao: extract_content (which
\* catches its own errors) and update_noticia_content. `fault`: the update
\* raises, and the except clause of the loop logs it.
ExtractItem(shape, fault) ==
    /\ stage = "extracao_loop"
    /\ LET i == Len(attempted) + 1
           id == batch[i]
           finished == NextRow(i, fault) > Len(batch)
       IN
       /\ attempted' = Append(attempted, [id |-> id, raised |-> fault])
       /\ IF fault
          THEN UNCHANGED <<noticias, stats>>
          ELSE /\ noticias' = UpdateContentRows(noticias, id, shape)
               /\ stats' = [stats EXCEPT !.ext_proc = @ + 1,
                                         !.ext_ok = @ + (IF ExtractionSuccess(shape)
                                                         THEN 1 ELSE 0)]
       /\ IF finished
          THEN Enter(StageAfter("extracao")) /\ UNCHANGED summary
          ELSE UNCHANGED <<stage, stage_log, summary>>
    /\ UNCHANGED <<run_no, dictionary, limits, stats_iniciais, src_idx, src_result,
                   coletas, batch, noticia_seq, scoring, scoring_seq>>
    /\ UNCHANGED nonPipeVars

\* `if not self.scoring_system.dictionary_df is not None:`, that is
\* not (dictionary_df is not None).
DictionaryMissingMutant(dict) == FALSE

DictionaryMissing(dict) == dict = "none"

\* _executar_scoring returns at once when the dictionary failed to load.
ScoreSkip ==
    /\ stage = "scoring"
    /\ DictionaryMissing(dictionary)
    /\ Enter(StageAfter("scoring"))
    /\ UNCHANGED <<run_no, dictionary, limits, stats, stats_iniciais, src_idx, src_result,
                   coletas, batch, attempted, summary,
                   noticias, noticia_seq, scoring, scoring_seq>>
    /\ UNCHANGED nonPipeVars

\* _executar_scoring up to its loop: the query, and the early return when
\* the DataFrame is empty. `fault`: the query raises.
ScoreFetch(fault) ==
    /\ stage = "scoring"
    /\ ~DictionaryMissing(dictionary)
    /\ IF fault
       THEN /\ Escapes("get_noticias_sem_scoring")
            /\ UNCHANGED <<batch, attempted>>
       ELSE \E b \in Batches(SemScoring(noticias, scoring), limits.sco) :
               /\ batch' = b
               /\ attempted' = <<>>
               /\ IF b = <<>>
                  THEN Enter(StageAfter("scoring")) /\ UNCHANGED summary
                  ELSE stage' = "scoring_loop" /\ UNCHANGED <<stage_log, summary>>
    /\ UNCHANGED <<run_no, dictionary, limits, stats, stats_iniciais, src_idx, src_result,
                   coletas, noticias, noticia_seq, scoring, scoring_seq>>
    /\ UNCHANGED nonPipeVars

\* What score_content can return: without dictionary or with an empty one
\* only the default result ("v2": score 0, no terms), with a loaded one a
\* result with terms ("v1") or without.
ScoreResults(dict) == IF dict = "loaded" THEN ScoreVals ELSE {"v2"}

\* resultado_scoring['score_interesse_total'] > 0
ComTermos(val) == val = "v1"

\* One turn of the loop of _executar_scoring: score_content and
\* insert_scoring. `fault`: insert_scoring raises, and the except clause of
\* the loop logs it.
ScoreItem(val, fault) ==
    /\ stage = "scoring_loop"
    /\ val \in ScoreResults(dictionary)
    /\ LET i == Len(attempted) + 1
           id == batch[i]
           finished == NextRow(i, fault) > Len(batch)
       IN
       /\ attempted' = Append(attempted, [id |-> id, raised |-> fault])
       /\ IF fault
          THEN UNCHANGED <<scoring, scoring_seq, stats>>
          ELSE /\ scoring_seq < MaxScoringId
               /\ scoring' = InsertScoringRows(scoring, scoring_seq, id, val)
               /\ scoring_seq' = scoring_seq + 1
               /\ stats' = [stats EXCEPT !.sco_proc = @ + 1,
                                         !.sco_termos = @ + (IF ComTermos(val)
                                                             THEN 1 ELSE 0)]
       /\ IF finished
          THEN Enter(StageAfter("scoring")) /\ UNCHANGED summary
          ELSE UNCHANGED <<stage, stage_log, summary>>
    /\ UNCHANGED <<run_no, dictionary, limits, stats_iniciais, src_idx, src_result,
                   coletas, batch, noticias, noticia_seq>>
    /\ UNCHANGED nonPipeVars

\* The dict executar_completo returns when the stages are over.
SuccessSummary ==
    <<[sucesso |-> TRUE,
       tempo_execucao |-> "total",
       stats_iniciais |-> stats_iniciais,
       stats_finais |-> Cardinality(noticias),
       coleta |-> [total_coletadas |-> stats.coletadas, total_novas |-> stats.novas],
       extracao |-> [processadas |-> stats.ext_proc, sucessos |-> stats.ext_ok],
       scoring |-> [processadas |-> stats.sco_proc, com_termos |-> stats.sco_termos]]>>

\* The final step of executar_completo: stats_finais = get_stats(), the
\* report, the return. `fault`: the store raises.
Report(fault) ==
    /\ stage = "report"
    /\ IF fault
       THEN Escapes("get_stats")
       ELSE /\ summary' = SuccessSummary
            /\ Enter(StageAfter("report"))
    /\ UNCHANGED <<run_no, dictionary, limits, stats, stats_iniciais, src_idx, src_result,
                   coletas, batch, attempted, noticias, noticia_seq, scoring, scoring_seq>>
    /\ UNCHANGED nonPipeVars

-----------------------------------------------------------------------------
(***************************************************************************)
(* Standalone entry point (run_automation.py)                              *)
(***************************************************************************)

\* The days (0 = Monday ... 6 = Sunday), hours and minutes at which main()
\* is started in the model.
Weekdays == {0, 4, 5, 6}

Hours == {10, 11, 12, 13, 18, 19, 20, 21}

Minutes == {0, 29, 30, 31, 59}

NoClock == [weekday |-> 0, hour |-> 0, minute |-> 0]

NoArgs == [force |-> FALSE, dry_run |-> FALSE]

\* horarios_permitidos of is_business_hours: <<inicio, fim>> in hours.
horarios_permitidos == {<<11, 13>>, <<19, 21>>}

\* is_business_hours(): the first element of the pair it returns.
is_business_hours(now) ==
    IF now.weekday >= 5 THEN FALSE
    ELSE \E w \in horarios_permitidos : w[1] <= now.hour /\ now.hour < w[2]

\* main() skips the run: `if not args.force` and the window check fails.
Skips(a, now) == ~a.force /\ ~is_business_hours(now)

\* The value main() returns for the dict of executar_completo.
ExitCodeMutant(resultado) == 0

ExitCode(resultado) == IF resultado.sucesso THEN 0 ELSE 1

\* main() is started: the arguments are parsed.
MainParse(force, dry_run, now) ==
    /\ main_pc = "off"
    /\ main_pc' = "check"
    /\ args' = [force |-> force, dry_run |-> dry_run]
    /\ agora' = now
    /\ UNCHANGED exit_code
    /\ UNCHANGED nonCliVars

\* The window check of main(): `return 0` when the run is skipped, otherwise
\* on to the try block.
MainWindowCheck ==
    /\ main_pc = "check"
    /\ IF Skips(args, agora)
       THEN main_pc' = "skipped" /\ exit_code' = 0
       ELSE main_pc' = "construct" /\ UNCHANGED exit_code
    /\ agora' = NoClock
    /\ UNCHANGED args
    /\ UNCHANGED nonCliVars

\* pipeline = ClippingPipeline(). `fault`: the constructor raises (the
\* database cannot be opened); `except Exception` of main() returns 1.
MainConstruct(fault) ==
    /\ main_pc = "construct"
    /\ IF fault
       THEN main_pc' = "exception" /\ exit_code' = 1
       ELSE main_pc' = "called" /\ UNCHANGED exit_code
    /\ UNCHANGED <<args, agora>>
    /\ UNCHANGED nonCliVars

\* executar_completo has returned: main() logs and returns.
MainReturn ==
    /\ main_pc = "called"
    /\ stage = "idle"
    /\ Len(summary) = 1
    /\ main_pc' = "returned"
    /\ exit_code' = ExitCode(summary[1])
    /\ UNCHANGED <<args, agora>>
    /\ UNCHANGED nonCliVars

-----------------------------------------------------------------------------
(***************************************************************************)
(* Scoring (scr/scoring.py)                                                *)
(***************************************************************************)

\* The highest score passed to _classify_relevance in the model.
MaxScore == 20

\* The scores passed to _classify_relevance.
Scores == -1..MaxScore

\* FACIAPScoring._classify_relevance
ClassifyRelevanceMutant(score) ==
    IF score > 15 THEN "Alta"
    ELSE IF score >= 8 THEN "Média"
    ELSE IF score >= 3 THEN "Baixa-Média"
    ELSE "Baixa"

ClassifyRelevance(score) ==
    IF score >= 15 THEN "Alta"
    ELSE IF score >= 8 THEN "Média"
    ELSE IF score >= 3 THEN "Baixa-Média"
    ELSE "Baixa"

\* A caller classifies a score.
Classify(score) ==
    /\ classified' = <<[score |-> score, relevancia |-> ClassifyRelevance(score)]>>
                     \o SubSeq(classified, 1, IF Len(classified) > 0 THEN 1 ELSE 0)
    /\ UNCHANGED <<dictionary_df, counts, resultado_scoring, termo_row, texto, termo_count>>
    /\ UNCHANGED nonScoreVars

\* Longest dictionary and highest number of occurrences of a term in a text.
MaxTerms == 3

MaxCount == 2

\* The axes (eixo_temat) and weights of interest of dictionary rows.
Eixos == {"Economia", "Saúde"}

Pesos == {1, 3}

\* The rows a dictionary is made of; row i is the term i.
DictRows == [eixo : Eixos, peso_interesse : Pesos, peso_risco : {1}]

\* The dictionaries a FACIAPScoring holds.
Dictionaries == SeqsUpTo(DictRows, MaxTerms)

\* _analyze_term for a term found `count` times (None when count is 0).
TermInfo(row, count) ==
    [eixo |-> row.eixo, count |-> count, peso_interesse |-> row.peso_interesse,
     peso_risco |-> row.peso_risco, score_contribuicao |-> count * row.peso_interesse]

\* eixos_scores after the term t was found: a dict, kept here as the sequence
\* of its items in insertion order.
AddToEixo(eixos, t) ==
    IF \E k \in 1..Len(eixos) : eixos[k].eixo = t.eixo
    THEN [k \in 1..Len(eixos) |->
            IF eixos[k].eixo = t.eixo
            THEN [eixos[k] EXCEPT !.interesse = @ + t.score_contribuicao,
                                  !.risco = @ + t.count * t.peso_risco,
                                  !.termos = @ + 1]
            ELSE eixos[k]]
    ELSE Append(eixos, [eixo |-> t.eixo, interesse |-> t.score_contribuicao,
                        risco |-> t.count * t.peso_risco, termos |-> 1])

\* The loop of score_content over the rows i..Len(rows): the accumulated
\* totals and eixos_scores.
RECURSIVE ScanTerms(_, _, _, _)
ScanTerms(rows, cnts, i, acc) ==
    IF i > Len(rows) THEN acc
    ELSE IF cnts[i] > 0
    THEN LET t == TermInfo(rows[i], cnts[i]) IN
         ScanTerms(rows, cnts, i + 1,
                   [interesse |-> acc.interesse + t.score_contribuicao,
                    risco |-> acc.risco + t.count * t.peso_risco,
                    termos |-> acc.termos + 1,
                    eixos |-> AddToEixo(acc.eixos, t)])
    ELSE ScanTerms(rows, cnts, i + 1, acc)

\* max(candidate, item) as Python's max(..., key=interesse) keeps it while it
\* goes through the items: the later item replaces the earlier one when ...
ReplacesMutant(later, earlier) == later.interesse >= earlier.interesse

Replaces(later, earlier) == later.interesse > earlier.interesse

\* max(eixos_scores.items(), key=lambda x: x[1]['interesse'])
RECURSIVE MaxEixo(_, _, _)
MaxEixo(eixos, k, best) ==
    IF k > Len(eixos) THEN best
    ELSE MaxEixo(eixos, k + 1, IF Replaces(eixos[k], best) THEN eixos[k] ELSE best)

\* FACIAPScoring.score_content for a text in which term i occurs cnts[i] times.
ScoreContent(rows, cnts) ==
    IF rows = <<>>
    THEN [score_interesse_total |-> 0, score_risco_total |-> 0, eixo_principal |-> "",
          relevancia |-> "Baixa", termos_encontrados |-> 0]
    ELSE LET acc == ScanTerms(rows, cnts, 1,
                              [interesse |-> 0, risco |-> 0, termos |-> 0, eixos |-> <<>>])
         IN [score_interesse_total |-> acc.interesse,
             score_risco_total |-> acc.risco,
             eixo_principal |-> IF acc.eixos = <<>> THEN ""
                                ELSE MaxEixo(acc.eixos, 2, acc.eixos[1]).eixo,
             relevancia |-> ClassifyRelevance(acc.interesse),
             termos_encontrados |-> acc.termos]

\* A caller scores the text.
Score ==
    /\ resultado_scoring = <<>>
    /\ Len(counts) = Len(dictionary_df)
    /\ resultado_scoring' = <<ScoreContent(dictionary_df, counts)>>
    /\ UNCHANGED <<dictionary_df, counts, classified, termo_row, texto, termo_count>>
    /\ UNCHANGED nonScoreVars

\* Longest text given to the matcher, in characters.
MaxTextLen == 5

\* The characters of titles, contents and dictionary terms.
Chars == {"l", "e", "i", "t", "é", " "}

\* The texts f"{titulo} {conteudo}" that are scored.
Textos == SeqsUpTo(Chars, MaxTextLen)

\* No row was given to _analyze_term.
NoRow == [palavra_chave |-> <<>>, tipo |-> "none"]

\* Rows of the dictionary: their palavra_chave and tipo.
TermRows ==
    { [palavra_chave |-> <<"L", "e", "i">>, tipo |-> "palavra"],
      [palavra_chave |-> <<"l", "e", "i">>, tipo |-> "expressão"],
      [palavra_chave |-> <<"i", " ", "l">>, tipo |-> "palavra"],
      [palavra_chave |-> <<"t", "é">>, tipo |-> "palavra"] }

\* str.lower()
Lower(text) == [k \in 1..Len(text) |-> IF text[k] = "L" THEN "l" ELSE text[k]]

\* FACIAPScoring._normalize_text: the accents of normalization_map are replaced.
NormalizeText(text) == [k \in 1..Len(text) |-> IF text[k] = "é" THEN "e" ELSE text[k]]

\* \w of the regular expressions: letters, digits and the underscore.
IsWordChar(c) == c # " "

\* \b at position k of the text: exactly one of the characters k-1 and k is
\* a word character (there is none outside the text).
Boundary(text, k) ==
    LET w(j) == j >= 1 /\ j <= Len(text) /\ IsWordChar(text[j])
    IN w(k - 1) # w(k)

\* The two \b of the pattern r'\b' + re.escape(termo) + r'\b' for a match of
\* n characters at position i.
WholeWordMutant(text, i, n) == Boundary(text, i)

WholeWord(text, i, n) == Boundary(text, i) /\ Boundary(text, i + n)

\* The pattern matches at position i of the text.
MatchAt(pat, text, i, whole) ==
    /\ i + Len(pat) - 1 <= Len(text)
    /\ SubSeq(text, i, i + Len(pat) - 1) = pat
    /\ whole => WholeWord(text, i, Len(pat))

\* len(re.findall(pattern, texto)) from position i on: the matches are taken
\* from left to right and do not overlap.
RECURSIVE FindAllCount(_, _, _, _)
FindAllCount(pat, text, i, whole) ==
    IF i > Len(text) THEN 0
    ELSE IF MatchAt(pat, text, i, whole)
         THEN 1 + FindAllCount(pat, text, i + Len(pat), whole)
         ELSE FindAllCount(pat, text, i + 1, whole)

\* The row is matched as an expression: plain search of the term.
IsExpressao(row, termo_normalizado) ==
    \/ row.tipo = "expressão"
    \/ \E k \in 1..Len(termo_normalizado) : termo_normalizado[k] = " "

\* count of FACIAPScoring._analyze_term for the normalised text.
AnalyzeTermCount(row, texto_normalizado) ==
    LET termo_normalizado == NormalizeText(Lower(row.palavra_chave))
    IN FindAllCount(termo_normalizado, texto_normalizado, 1,
                    ~IsExpressao(row, termo_normalizado))

\* score_content prepares the text and analyses one term of the dictionary.
AnalyzeTerm ==
    /\ termo_row # NoRow
    /\ termo_count = -1
    /\ termo_count' = AnalyzeTermCount(termo_row, NormalizeText(Lower(texto)))
    /\ UNCHANGED <<dictionary_df, counts, resultado_scoring, classified, termo_row, texto>>
    /\ UNCHANGED nonScoreVars

-----------------------------------------------------------------------------
(***************************************************************************)
(* Specifications                                                          *)
(***************************************************************************)

\* The store right after init_database on a new file.
StoreEmpty ==
    /\ noticias = {}
    /\ noticia_seq = 0
    /\ scoring = {}
    /\ scoring_seq = 0
    /\ db_writer = "none"
    /\ tx = [c \in Conns |-> NoTx]
    /\ res = [c \in Conns |-> NoRes]
    /\ last_scored = [n \in NoticiaIds |-> "none"]

\* A ClippingPipeline as __init__ leaves it, before any run.
PipeIdle ==
    /\ stage = "idle"
    /\ run_no = 0
    /\ limits = [ext |-> MAX_EXTRACTION_PER_RUN, sco |-> MAX_SCORING_PER_RUN,
                 passed_ext |-> MAX_EXTRACTION_PER_RUN, passed_sco |-> MAX_SCORING_PER_RUN]
    /\ stats = NoStats
    /\ stats_iniciais = 0
    /\ src_idx = 0
    /\ src_result = [s \in Sources |-> "none"]
    /\ coletas = <<>>
    /\ batch = <<>>
    /\ attempted = <<>>
    /\ stage_log = <<>>
    /\ summary = <<>>

\* main() of run_automation.py has not been started.
CliOff ==
    /\ main_pc = "off"
    /\ args = NoArgs
    /\ agora = NoClock
    /\ exit_code = -1

\* No text has been scored.
ScoreOff ==
    /\ dictionary_df = <<>>
    /\ counts = <<>>
    /\ resultado_scoring = <<>>
    /\ classified = <<>>
    /\ termo_row = NoRow
    /\ texto = <<>>
    /\ termo_count = -1

\* No process has started anything.
GuardIdle ==
    /\ lock_file = NoFile
    /\ alive = [p \in Procs |-> TRUE]
    /\ pc = [p \in Procs |-> "idle"]
    /\ running = [p \in Procs |-> p \in Schedulers]
    /\ pid_read = [p \in Procs |-> "none"]
    /\ fd = [p \in Procs |-> "closed"]
    /\ wrote = [p \in Procs |-> FALSE]
    /\ started_held = [p \in Procs |-> FALSE]
    /\ outcome = [p \in Procs |-> "none"]

GuardInit ==
    /\ GuardIdle
    /\ user \in {u \in [Procs -> Users] : \A p \in Procs \ {"s2"} : u[p] = "faciap"}
    /\ StoreEmpty
    /\ PipeIdle
    /\ dictionary = "loaded"
    /\ CliOff
    /\ ScoreOff

GuardNext ==
    \E p \in Procs :
        \/ StartJob(p)
        \/ ReadPid(p)
        \/ Probe(p)
        \/ UnlinkStale(p)
        \/ CreateLockOpen(p)
        \/ CreateLockWrite(p)
        \/ PipelineWrite(p)
        \/ PipelineEnd(p)
        \/ RemoveLockExists(p)
        \/ RemoveLockUnlink(p)
        \/ SignalHandler(p)
        \/ SignalSwallowed(p)
        \/ ExitFinally(p)
        \/ Crash(p)
        \/ CliStart(p)
        \/ CliEnd(p)

SpecGuard == GuardInit /\ [][GuardNext]_vars

\* The scheduler processes of one user, each running jobs item by item and
\* receiving SIGINT or SIGTERM at any moment.
SignalInit ==
    /\ GuardIdle
    /\ user = [p \in Procs |-> "faciap"]
    /\ StoreEmpty
    /\ PipeIdle
    /\ dictionary = "loaded"
    /\ CliOff
    /\ ScoreOff

SignalNext ==
    \E p \in Schedulers :
        \/ StartJob(p)
        \/ ReadPid(p)
        \/ Probe(p)
        \/ UnlinkStale(p)
        \/ CreateLockOpen(p)
        \/ CreateLockWrite(p)
        \/ ItemStart(p)
        \/ ItemEnd(p)
        \/ PipelineEnd(p)
        \/ RemoveLockExists(p)
        \/ RemoveLockUnlink(p)
        \/ SignalHandler(p)
        \/ SignalSwallowed(p)
        \/ ExitFinally(p)

SpecSignal == SignalInit /\ [][SignalNext]_vars

StoreInit ==
    /\ GuardIdle
    /\ user = [p \in Procs |-> "faciap"]
    /\ StoreEmpty
    /\ PipeIdle
    /\ dictionary = "loaded"
    /\ CliOff
    /\ ScoreOff

\* One connection calling insert_noticia and update_noticia_content in any order.
StoreNext ==
    \/ \E item \in Items : InsertNoticia("c1", item)
    \/ \E id \in NoticiaIds, shape \in ExtractShapes : UpdateNoticiaContent("c1", id, shape)

SpecStore == StoreInit /\ [][StoreNext]_vars

\* Two connections calling insert_scoring, statement by statement.
UpsertNext ==
    \E c \in Conns :
        \/ \E nid \in NoticiaIds, val \in ScoreVals : ScoringDelete(c, nid, val)
        \/ \E nid \in NoticiaIds : ScoringLocked(c, nid)
        \/ ScoringInsert(c)
        \/ ScoringRollback(c)
        \/ ScoringCommit(c)

SpecUpsert == StoreInit /\ [][UpsertNext]_vars

\* Callers of _classify_relevance, with any score.
ClassifyNext == \E score \in Scores : Classify(score)

SpecClassify == StoreInit /\ [][ClassifyNext]_vars

\* A FACIAPScoring with any dictionary and any text (term i of the dictionary
\* occurs counts[i] times in it), before the text is scored.
ScoringInit ==
    /\ GuardIdle
    /\ user = [p \in Procs |-> "faciap"]
    /\ StoreEmpty
    /\ PipeIdle
    /\ dictionary = "loaded"
    /\ CliOff
    /\ dictionary_df \in Dictionaries
    /\ counts \in [1..Len(dictionary_df) -> 0..MaxCount]
    /\ resultado_scoring = <<>>
    /\ classified = <<>>
    /\ termo_row = NoRow
    /\ texto = <<>>
    /\ termo_count = -1

ScoringNext == Score

SpecScoring == ScoringInit /\ [][ScoringNext]_vars

\* A row of the dictionary and a text, before _analyze_term counts.
MatchInit ==
    /\ GuardIdle
    /\ user = [p \in Procs |-> "faciap"]
    /\ StoreEmpty
    /\ PipeIdle
    /\ dictionary = "loaded"
    /\ CliOff
    /\ dictionary_df = <<>>
    /\ counts = <<>>
    /\ resultado_scoring = <<>>
    /\ classified = <<>>
    /\ termo_row \in TermRows
    /\ texto \in Textos
    /\ termo_count = -1

MatchNext == AnalyzeTerm

SpecMatch == MatchInit /\ [][MatchNext]_vars

\* The stores a new process finds (the tables are created only IF NOT
\* EXISTS): an empty one, and what earlier runs left when they collected l1
\* and then failed to extract it, or extracted and scored it.
PriorRow(shape) ==
    UpdateContentRows({NewRow(1, ItemOf("camara", "l1", 0))}, 1, shape)

PriorStores ==
    { [noticias |-> {}, noticia_seq |-> 0, scoring |-> {}, scoring_seq |-> 0],
      [noticias |-> PriorRow([content_len |-> 0, word_count |-> 0]), noticia_seq |-> 1,
       scoring |-> {}, scoring_seq |-> 0],
      [noticias |-> PriorRow([content_len |-> 400, word_count |-> 60]), noticia_seq |-> 1,
       scoring |-> InsertScoringRows({}, 0, 1, "v1"), scoring_seq |-> 1] }

\* A new ClippingPipeline over one of these stores; the dictionary file
\* loaded, was empty, or could not be read.
PipelineInit ==
    /\ GuardIdle
    /\ user = [p \in Procs |-> "faciap"]
    /\ \E st \in PriorStores :
          /\ noticias = st.noticias
          /\ noticia_seq = st.noticia_seq
          /\ scoring = st.scoring
          /\ scoring_seq = st.scoring_seq
    /\ db_writer = "none"
    /\ tx = [c \in Conns |-> NoTx]
    /\ res = [c \in Conns |-> NoRes]
    /\ last_scored = [n \in NoticiaIds |-> "none"]
    /\ PipeIdle
    /\ dictionary \in {"none", "empty", "loaded"}
    /\ CliOff
    /\ ScoreOff

\* One process calling executar_completo; scrapers, the extractor, the scorer
\* and the store answer in every way they can.
PipelineNext ==
    \/ run_no = 0 /\ \E le, ls \in LimitInputs : StartRun(le, ls)
    \/ \E fault \in BOOLEAN : Initialise(fault)
    \/ \E raises, reg_fault, err_fault \in BOOLEAN, ins_fault \in 0..MaxScrape :
          \E result \in SeqsUpTo(Links, MaxScrape) :
             CollectSource(raises, result, ins_fault, reg_fault, err_fault)
    \/ \E fault \in BOOLEAN : ExtractFetch(fault)
    \/ \E shape \in ExtractShapes, fault \in BOOLEAN : ExtractItem(shape, fault)
    \/ ScoreSkip
    \/ \E fault \in BOOLEAN : ScoreFetch(fault)
    \/ \E val \in ScoreVals, fault \in BOOLEAN : ScoreItem(val, fault)
    \/ \E fault \in BOOLEAN : Report(fault)

SpecPipeline == PipelineInit /\ [][PipelineNext]_vars

\* One ClippingPipeline instance, as the scheduler keeps it, over a new
\* store, the dictionary loaded.
RunsInit ==
    /\ GuardIdle
    /\ user = [p \in Procs |-> "faciap"]
    /\ StoreEmpty
    /\ PipeIdle
    /\ dictionary = "loaded"
    /\ CliOff
    /\ ScoreOff

\* The instance executes one run after the other, with the default limit of
\* extractions or a limit of 1; the scrapers may raise, the store does not.
RunsNext ==
    \/ \E le \in {1, MAX_EXTRACTION_PER_RUN} : StartRun(le, MAX_SCORING_PER_RUN)
    \/ Initialise(FALSE)
    \/ \E raises \in BOOLEAN, result \in SeqsUpTo(Links, MaxScrape) :
          CollectSource(raises, result, 0, FALSE, FALSE)
    \/ ExtractFetch(FALSE)
    \/ \E shape \in ExtractShapes : ExtractItem(shape, FALSE)
    \/ ScoreFetch(FALSE)
    \/ \E val \in ScoreVals : ScoreItem(val, FALSE)
    \/ Report(FALSE)

SpecRuns == RunsInit /\ [][RunsNext]_vars

\* The next process is started (cron, a workflow run, a restarted scheduler)
\* and builds its ClippingPipeline: a new instance over the same store.
NewProcess ==
    /\ stage = "idle"
    /\ run_no > 0
    /\ run_no' = 0
    /\ limits' = [ext |-> MAX_EXTRACTION_PER_RUN, sco |-> MAX_SCORING_PER_RUN,
                  passed_ext |-> MAX_EXTRACTION_PER_RUN, passed_sco |-> MAX_SCORING_PER_RUN]
    /\ stats' = NoStats
    /\ stats_iniciais' = 0
    /\ src_idx' = 0
    /\ src_result' = [s \in Sources |-> "none"]
    /\ coletas' = <<>>
    /\ batch' = <<>>
    /\ attempted' = <<>>
    /\ stage_log' = <<>>
    /\ summary' = <<>>
    /\ UNCHANGED <<stage, dictionary, noticias, noticia_seq, scoring, scoring_seq>>
    /\ UNCHANGED nonPipeVars

\* A store in which two items of different collection times wait for their
\* extraction.
StarveInit ==
    /\ GuardIdle
    /\ user = [p \in Procs |-> "faciap"]
    /\ noticias = {NewRow(1, ItemOf("camara", "l1", 0)), NewRow(2, ItemOf("senado", "l2", 1))}
    /\ noticia_seq = 2
    /\ scoring = {}
    /\ scoring_seq = 0
    /\ db_writer = "none"
    /\ tx = [c \in Conns |-> NoTx]
    /\ res = [c \in Conns |-> NoRes]
    /\ last_scored = [n \in NoticiaIds |-> "none"]
    /\ PipeIdle
    /\ dictionary = "loaded"
    /\ CliOff
    /\ ScoreOff

\* Run after run with --max-extraction 1, each in a process of its own; the
\* sources have nothing new, pages may fail to load at every attempt.
StarveNext ==
    \/ run_no = 0 /\ StartRun(1, MAX_SCORING_PER_RUN)
    \/ NewProcess
    \/ Initialise(FALSE)
    \/ \E raises \in BOOLEAN : CollectSource(raises, <<>>, 0, FALSE, FALSE)
    \/ ExtractFetch(FALSE)
    \/ \E shape \in ExtractShapes : ExtractItem(shape, FALSE)
    \/ ScoreFetch(FALSE)
    \/ \E val \in ScoreVals : ScoreItem(val, FALSE)
    \/ Report(FALSE)

\* The runs never stop coming and every run goes on to its end.
SpecStarve == StarveInit /\ [][StarveNext]_vars /\ WF_vars(StarveNext)

\* One run over a new store in which a scraper returns up to MaxCollect items
\* (one page may repeat a link) and any insert_noticia may raise; the other
\* calls of the store succeed.
CollectNext ==
    \/ run_no = 0 /\ StartRun(MAX_EXTRACTION_PER_RUN, MAX_SCORING_PER_RUN)
    \/ Initialise(FALSE)
    \/ \E raises \in BOOLEAN, ins_fault \in 0..MaxCollect :
          \E result \in SeqsUpTo(Links, MaxCollect) :
             CollectSource(raises, result, ins_fault, FALSE, FALSE)
    \/ ExtractFetch(FALSE)
    \/ \E shape \in ExtractShapes : ExtractItem(shape, FALSE)
    \/ ScoreFetch(FALSE)
    \/ \E val \in ScoreVals : ScoreItem(val, FALSE)
    \/ Report(FALSE)

SpecCollect == RunsInit /\ [][CollectNext]_vars

\* One connection calling insert_noticia and update_noticia_content over a
\* store that earlier runs have filled.
ReinsertInit ==
    /\ PipelineInit
    /\ dictionary = "loaded"

SpecReinsert == ReinsertInit /\ [][StoreNext]_vars

\* The steps of executar_completo after its start.
PipelineSteps ==
    \/ \E fault \in BOOLEAN : Initialise(fault)
    \/ \E raises, reg_fault, err_fault \in BOOLEAN, ins_fault \in 0..MaxScrape :
          \E result \in SeqsUpTo(Links, MaxScrape) :
             CollectSource(raises, result, ins_fault, reg_fault, err_fault)
    \/ \E fault \in BOOLEAN : ExtractFetch(fault)
    \/ \E shape \in ExtractShapes, fault \in BOOLEAN : ExtractItem(shape, fault)
    \/ ScoreSkip
    \/ \E fault \in BOOLEAN : ScoreFetch(fault)
    \/ \E val \in ScoreVals, fault \in BOOLEAN : ScoreItem(val, fault)
    \/ \E fault \in BOOLEAN : Report(fault)

\* One process running run_automation.py: main() at any of the modelled
\* times, with or without --force and --dry-run and with the default limits,
\* and inside it one run of the pipeline.
CliNext ==
    \/ \E force, dry_run \in BOOLEAN, wd \in Weekdays, h \in Hours, m \in Minutes :
          MainParse(force, dry_run, [weekday |-> wd, hour |-> h, minute |-> m])
    \/ MainWindowCheck
    \/ \E fault \in BOOLEAN : MainConstruct(fault)
    \/ main_pc = "called" /\ run_no = 0
          /\ StartRun(MAX_EXTRACTION_PER_RUN, MAX_SCORING_PER_RUN)
    \/ PipelineSteps
    \/ MainReturn

\* run_automation.py not yet started, over a store in which nothing is scored
\* yet; the dictionary file is there or is not.
CliInit ==
    /\ PipelineInit
    /\ scoring = {}
    /\ dictionary \in {"none", "loaded"}

SpecCli == CliInit /\ [][CliNext]_vars

-----------------------------------------------------------------------------
(***************************************************************************)
(* Properties of the execution guard                                       *)
(***************************************************************************)

\* C2: at most one pipeline execution is active at any time: no two processes
\* running execute_pipeline_job are inside executar_completo together.
C2_MutualExclusion ==
    \A p, q \in Schedulers :
        p # q => ~(pc[p] = "pipeline" /\ pc[q] = "pipeline")

\* C3: a run started while the lock file names a live process is skipped and
\* writes nothing to the store, whichever entry point started it.
C3_SkipWhenLockHeld ==
    \A p \in Procs : started_held[p] => ~wrote[p]

\* C4: is_already_running treats the lock as stale (and removes it) only when
\* the process the file records does not exist, whatever the probe raised.
C4_StaleOnlyWhenDead ==
    \A p \in Schedulers :
        (pc[p] = "unlink_stale" /\ pid_read[p] \in Procs) => ~alive[pid_read[p]]

\* C5: once a job of execute_pipeline_job has ended (return, failure,
\* exception) or the process has exited on SIGINT/SIGTERM, the lock file this
\* process wrote no longer exists.
C5_LockReleased ==
    \A p \in Schedulers :
        pc[p] \in {"idle", "exited"} => lock_file # p

\* C5 witness: one job ended by an exception and another process exited on a
\* signal received during its job, both after having written the lock.
C5_Witness ==
    \E p, q \in Schedulers :
        /\ pc[p] = "idle" /\ outcome[p] = "exception"
        /\ pc[q] = "exited" /\ outcome[q] = "signal"
        /\ lock_file = NoFile

\* C17: on SIGINT or SIGTERM during a job the running flag becomes false and
\* the lock is released; a per-item step in flight is not cut short (it ends
\* only by returning to its loop), and no new per-item step is begun once the
\* flag is false.
C17_SignalStopsAtLoopCheck ==
    [][\A p \in Schedulers :
          /\ (outcome'[p] = "signal" /\ outcome[p] # "signal")
                => (~running'[p] /\ lock_file' = NoFile)
          /\ pc[p] = "pipeline_item" => pc'[p] \in {"pipeline_item", "pipeline"}
          /\ (pc[p] = "pipeline" /\ pc'[p] = "pipeline_item") => running[p]]_vars

\* C25: a lock file that names a live process is removed by that process
\* only: whenever such a file disappears, the step that removed it is a step
\* of the process it names.
C25_OnlyOwnerRemoves ==
    [][(lock_file \in Procs /\ alive[lock_file] /\ lock_file' = NoFile)
          => \/ pc'[lock_file] # pc[lock_file]
             \/ running'[lock_file] # running[lock_file]]_vars

-----------------------------------------------------------------------------
(***************************************************************************)
(* Properties of the store                                                 *)
(***************************************************************************)

\* C1: no two stored news items share a link; an insert_noticia of an item
\* whose link is stored creates no record and returns the existing id with
\* is_new = False; the first insert of a link, when it returns, returns a
\* fresh id with is_new = True and creates the record.
C1_LinkUnique ==
    /\ \A r1, r2 \in noticias : r1.link = r2.link => r1 = r2
    /\ \A c \in Conns :
         (res[c].op = "insert_noticia" /\ res[c].link # Missing) =>
            /\ res[c].existed # 0 =>
                 (res[c].kind = "dup" /\ res[c].id = res[c].existed /\ ~res[c].created)
            /\ (res[c].existed = 0 /\ res[c].kind # "raise") =>
                 (res[c].kind = "new" /\ res[c].fresh /\ res[c].created
                  /\ \E r \in noticias : r.id = res[c].id /\ r.link = res[c].link)
            /\ res[c].kind = "raise" => ~res[c].created

\* C1 witness: two links are stored and the last insert hit a stored link.
C1_Witness ==
    /\ Cardinality(noticias) = 2
    /\ res["c1"].op = "insert_noticia"
    /\ res["c1"].kind = "dup"
    /\ res["c1"].id = 1

\* C30: an insert_noticia call that does not create a record, as every call
\* with a stored link, leaves tables noticias and scoring as they were: the
\* stored record keeps its title, source, collection time, content and
\* extraction flag, and its scoring row stays.
C30_DuplicateInsertChangesNothing ==
    [][\A c \in Conns :
          res'[c].op = "insert_noticia" =>
             /\ res'[c].existed # 0 => res'[c].kind # "new"
             /\ res'[c].kind # "new" =>
                   (noticias' = noticias /\ scoring' = scoring
                    /\ noticia_seq' = noticia_seq)]_vars

\* An item collected at another time was inserted with the link of the
\* extracted and scored record 1, which is as before.
C30_Witness ==
    /\ res["c1"].op = "insert_noticia"
    /\ res["c1"].kind = "dup"
    /\ res["c1"].existed = 1
    /\ \E r \in noticias :
          /\ r.id = 1
          /\ r.data_coleta # res["c1"].data_coleta
          /\ r.content_len = 400
          /\ r.extraction_success
    /\ \E x \in scoring : x.noticia_id = 1

\* C6: each news item has at most one scoring row, and once insert_scoring
\* has committed for an item, that row holds the values of the most recent
\* committed call (the DELETE and the INSERT take effect together).
C6_OneScoringRow ==
    \A n \in NoticiaIds :
        /\ Cardinality({r \in scoring : r.noticia_id = n}) <= 1
        /\ last_scored[n] # "none" =>
              \E r \in scoring : r.noticia_id = n /\ r.val = last_scored[n]

\* C6 witness: both connections have committed an insert_scoring for item 1,
\* with different values, and a third call has deleted but not yet committed.
C6_Witness ==
    /\ res["c1"].kind = "ok" /\ res["c1"].id = 1
    /\ res["c2"].kind = "ok" /\ res["c2"].id = 1
    /\ scoring_seq = 2
    /\ last_scored[1] = "v2"
    /\ \E c \in Conns : tx[c].pc = "deleted" /\ tx[c].nid = 1

-----------------------------------------------------------------------------
(***************************************************************************)
(* Properties of the pipeline                                              *)
(***************************************************************************)

\* The four stages of a run, in the order of the specification.
AllStages == <<"coleta", "extracao", "scoring", "report">>

IsPrefix(q, r) == Len(q) <= Len(r) /\ \A i \in 1..Len(q) : q[i] = r[i]

\* The collect loop is done with source s in this run.
SourceOver(s) ==
    \E i \in 1..Len(SourceOrder) :
        SourceOrder[i] = s /\ (src_idx > i \/ (src_idx = i /\ stage # "coleta"))

\* C7: the failure of one source never aborts the collection of the others.
\* Once a run in which some scraper raised has left the collect stage, every
\* registered source has been attempted; a source whose scraper raised has a
\* CollectionRun with status 'error'; a source whose scraper and inserts all
\* completed has a CollectionRun with status 'success'.
C7_SourceIsolation ==
    /\ ((\E s \in Sources : src_result[s] = "raised") /\ stage # "coleta")
          => \A s \in Sources : src_result[s] # "none"
    /\ \A s \in Sources :
          (src_result[s] = "raised" /\ SourceOver(s))
             => \E i \in 1..Len(coletas) : coletas[i].fonte = s /\ coletas[i].status = "error"
    /\ \A s \in Sources :
          (src_result[s] = "completed" /\ SourceOver(s))
             => \E i \in 1..Len(coletas) : coletas[i].fonte = s /\ coletas[i].status = "success"

\* C8: within one run the stages are entered in the order collect, extract,
\* score, report, each at most once, and a stage is entered only when the one
\* before it is over: extraction after the collect loop has passed the last
\* source, the later stages after the loop before them has reached the end of
\* its batch.
C8_StagesInOrder ==
    /\ IsPrefix(stage_log, AllStages)
    /\ stage \in {"coleta", "report"} => stage_log # <<>> /\ stage_log[Len(stage_log)] = stage
    /\ stage \in {"extracao", "extracao_loop"} => stage_log = SubSeq(AllStages, 1, 2)
    /\ stage \in {"scoring", "scoring_loop"} => stage_log = SubSeq(AllStages, 1, 3)
    /\ Len(stage_log) >= 2 => src_idx = Len(SourceOrder) + 1
    /\ Len(stage_log) >= 3 => (stage # "scoring_loop" => Len(attempted) = Len(batch))

\* A complete run: the four stages were entered and two rows went through a loop.
C8_Witness ==
    /\ stage = "idle"
    /\ stage_log = AllStages
    /\ Len(batch) = 2

\* The stage a failed call belongs to, as the length of stage_log at the call.
StagesBefore(erro) ==
    CASE erro = "registrar_coleta" -> {1}
      [] erro = "get_noticias_sem_conteudo" -> {2}
      [] erro = "get_noticias_sem_scoring" -> {3}
      [] erro = "get_stats" -> {0, 4}
      [] OTHER -> {}

\* C9: executar_completo always returns a summary. When every stage was
\* completed it has sucesso = TRUE, the counters of the three stages and the
\* store statistics of before and after; when an exception left a stage it has
\* sucesso = FALSE, the error and the time elapsed until the failure, and the
\* stages after the failing one were not entered.
C9_AlwaysSummary ==
    /\ stage # "idle" => summary = <<>>
    /\ (stage = "idle" /\ run_no > 0) =>
          /\ Len(summary) = 1
          /\ LET r == summary[1] IN
             IF r.sucesso
             THEN /\ stage_log = AllStages
                  /\ DOMAIN r = {"sucesso", "tempo_execucao", "stats_iniciais", "stats_finais",
                                 "coleta", "extracao", "scoring"}
                  /\ r.tempo_execucao = "total"
                  /\ r.coleta = [total_coletadas |-> stats.coletadas,
                                 total_novas |-> stats.novas]
                  /\ r.extracao = [processadas |-> stats.ext_proc, sucessos |-> stats.ext_ok]
                  /\ r.scoring = [processadas |-> stats.sco_proc,
                                  com_termos |-> stats.sco_termos]
                  /\ r.stats_finais = Cardinality(noticias)
             ELSE /\ DOMAIN r = {"sucesso", "erro", "tempo_execucao"}
                  /\ r.tempo_execucao = "until_failure"
                  /\ Len(stage_log) \in StagesBefore(r.erro)
                  /\ IsPrefix(stage_log, AllStages)

\* A run that failed in the scoring stage, after collecting and extracting.
C9_Witness ==
    /\ stage = "idle"
    /\ Len(summary) = 1
    /\ ~summary[1].sucesso
    /\ summary[1].erro = "get_noticias_sem_scoring"
    /\ stats.ext_proc > 0

\* The loop the rows in `batch` belong to.
LoopOfBatch ==
    IF stage \in {"extracao_loop", "scoring"} THEN "extracao"
    ELSE IF stage = "scoring_loop" \/ (stage = "report" /\ dictionary # "none") THEN "scoring"
    ELSE "other"

\* The per-item steps of the current loop that returned.
Processed == {i \in 1..Len(attempted) : ~attempted[i].raised}

\* C10: in the extraction and the scoring loop a failure of one item is
\* caught and the item skipped: the loop attempts the rows of its batch in
\* order, each once, it ends only when every row was attempted, an item whose
\* step raised leaves no result and an item whose step returned is counted
\* (and, in scoring, has its row).
C10_ItemFailuresSkipped ==
    /\ \A i, j \in 1..Len(batch) : i # j => batch[i] # batch[j]
    /\ Len(attempted) <= Len(batch)
    /\ \A i \in 1..Len(attempted) : attempted[i].id = batch[i]
    /\ stage \notin {"extracao_loop", "scoring_loop"} => Len(attempted) = Len(batch)
    /\ LoopOfBatch = "extracao" =>
          /\ stats.ext_proc = Cardinality(Processed)
          /\ \A i \in 1..Len(attempted) :
                attempted[i].raised =>
                   \E r \in SemConteudo(noticias) : r.id = attempted[i].id
    /\ LoopOfBatch = "scoring" =>
          /\ stats.sco_proc = Cardinality(Processed)
          /\ \A i \in 1..Len(attempted) :
                attempted[i].raised <=>
                   ~\E x \in scoring : x.noticia_id = attempted[i].id

\* The extraction loop is over a batch of two rows: the step of the first
\* raised, the second was processed all the same.
C10_Witness ==
    /\ stage = "scoring"
    /\ Len(batch) = 2
    /\ Len(attempted) = 2
    /\ attempted[1].raised
    /\ ~attempted[2].raised

\* C11: when the dictionary failed to load the score stage is a no-op. The
\* stage writes no scoring row (table scoring is what the run found), counts
\* nothing, never enters its loop and never raises: the run goes on to the
\* report and returns sucesso = TRUE unless the final get_stats fails.
C11_NoDictionaryNoOp ==
    dictionary = "none" =>
        /\ \E st \in PriorStores : scoring = st.scoring /\ scoring_seq = st.scoring_seq
        /\ stats.sco_proc = 0 /\ stats.sco_termos = 0
        /\ stage # "scoring_loop"
        /\ (stage = "idle" /\ Len(stage_log) >= 3) =>
              /\ Len(stage_log) = 4
              /\ Len(summary) = 1
              /\ summary[1].sucesso \/ summary[1].erro = "get_stats"

\* A run without dictionary returned success although an extracted item was
\* waiting for its score.
C11_Witness ==
    /\ dictionary = "none"
    /\ stage = "idle"
    /\ Len(summary) = 1
    /\ summary[1].sucesso
    /\ SemScoring(noticias, scoring) # {}

\* C12: recording a collection run never fails the caller. A failure to write
\* the CollectionRun entry, on the success path or on the error path of a
\* source, does not abort the run, and the collect stage goes on with the
\* next source: no run ends on the error of registrar_coleta, and a run that
\* has left the collect stage has attempted every source.
C12_RecordRunNeverFails ==
    /\ (Len(summary) = 1 /\ ~summary[1].sucesso) => summary[1].erro # "registrar_coleta"
    /\ (run_no > 0 /\ stage \notin {"init", "coleta"} /\ stage_log # <<>>)
          => \A s \in Sources : src_result[s] # "none"

\* C13: insert_noticia resolves only a collision on the link by its lookup.
\* It answers "duplicate" only when the link is stored, with the id of that
\* record, and an item that breaks another constraint (its data_coleta is
\* missing) makes it raise instead of being reported as a duplicate; the
\* table is left as it was.
C13_OtherViolationsPropagate ==
    \A c \in Conns :
        res[c].op = "insert_noticia" =>
            /\ res[c].kind = "dup" =>
                  (res[c].existed # 0 /\ res[c].id = res[c].existed /\ ~res[c].created)
            /\ res[c].data_coleta = 0 => (res[c].kind = "raise" /\ ~res[c].created)

\* C18: what get_noticias_sem_scoring(limit) returns (here: the batch the
\* score stage has just fetched) holds only items with extraction_success,
\* word_count > 50 and no scoring row, each once, the most recently collected
\* first, at most `limit` of them, and as many of them as the limit allows:
\* an item left out is not more recent than any item returned.
C18_SemScoringExact ==
    (stage = "scoring_loop" /\ attempted = <<>>) =>
        LET due == {r \in noticias : /\ r.extraction_success
                                      /\ r.word_count > 50
                                      /\ \A x \in scoring : x.noticia_id # r.id}
            row(id) == CHOOSE r \in noticias : r.id = id
            got == {batch[i] : i \in 1..Len(batch)}
        IN /\ got \subseteq {r.id : r \in due}
           /\ Cardinality(got) = Len(batch)
           /\ Len(batch) <= limits.sco
           /\ Len(batch) = limits.sco \/ got = {r.id : r \in due}
           /\ \A i, j \in 1..Len(batch) :
                 i < j => row(batch[i]).data_coleta >= row(batch[j]).data_coleta
           /\ \A r \in due : r.id \notin got =>
                 \A i \in 1..Len(batch) : row(batch[i]).data_coleta >= r.data_coleta

\* With limit 1 and two items waiting for their score, collected at different
\* times, the query returned one.
C18_Witness ==
    /\ stage = "scoring_loop"
    /\ attempted = <<>>
    /\ limits.sco = 1
    /\ Len(batch) = 1
    /\ \E r \in noticias :
          /\ r.id # batch[1]
          /\ r.extraction_success /\ r.word_count > 50
          /\ \A x \in scoring : x.noticia_id # r.id
          /\ \E b \in noticias : b.id = batch[1] /\ b.data_coleta > r.data_coleta

\* C22: the extract stage of a run handles at most as many items as the
\* limite_extracao passed to executar_completo, and the score stage at most
\* as many as the limite_scoring passed, whatever the values passed (0 too).
C22_LimitsBoundWork ==
    /\ stage = "extracao_loop" => Len(batch) <= limits.passed_ext
    /\ stage = "scoring_loop" => Len(batch) <= limits.passed_sco

\* C23: with an empty dictionary the run treats scoring as unavailable, as it
\* does without dictionary: the score stage writes no scoring row (table
\* scoring is what the run found) and counts no item as scored, so that the
\* items stay among those get_noticias_sem_scoring returns.
C23_EmptyDictionaryNoOp ==
    dictionary = "empty" =>
        /\ \E st \in PriorStores : scoring = st.scoring /\ scoring_seq = st.scoring_seq
        /\ stats.sco_proc = 0

\* The sum of noticias_coletadas, and of noticias_novas, over the rows of
\* coletas a run appended.
RECURSIVE ColetadasLogged(_)
ColetadasLogged(q) ==
    IF q = <<>> THEN 0 ELSE Head(q).noticias_coletadas + ColetadasLogged(Tail(q))

RECURSIVE NovasLogged(_)
NovasLogged(q) ==
    IF q = <<>> THEN 0 ELSE Head(q).noticias_novas + NovasLogged(Tail(q))

\* C24: the counts of the summary a run returns are those of the run alone,
\* also when the instance has executed a run before. Collected and new items
\* are what the run logged for its sources, the new items are the growth of
\* the store during the run, the scored items are those the score loop of
\* the run went through, and no more extractions are counted than items are
\* stored.
C24_SummaryCountsThisRun ==
    (stage = "idle" /\ Len(summary) = 1 /\ summary[1].sucesso) =>
        LET r == summary[1] IN
        /\ r.coleta.total_coletadas = ColetadasLogged(coletas)
        /\ r.coleta.total_novas = NovasLogged(coletas)
        /\ r.coleta.total_novas = r.stats_finais - r.stats_iniciais
        /\ r.scoring.processadas = Len(attempted)
        /\ r.extracao.processadas <= r.stats_finais
        /\ r.extracao.sucessos <= r.extracao.processadas

\* C26: every stored item either has extraction_success set or is among the
\* rows get_noticias_sem_conteudo selects, so that a later run extracts it.
C26_ExtractedOrEligible ==
    \A r \in noticias : r.extraction_success \/ r \in SemConteudo(noticias)

\* C27: an item that needs extraction is in the batch of the extract stage
\* of some later run, whatever becomes of the extractions of other items.
C27_NoStarvation ==
    \A id \in NoticiaIds :
        (\E r \in SemConteudo(noticias) : r.id = id)
            ~> (stage = "extracao_loop" /\ \E i \in 1..Len(batch) : batch[i] = id)

\* C28: at all times every item with a scoring row has extraction_success
\* set and more than 50 words; and once an item has a scoring row, no step of
\* this or a later run replaces that row or changes the item's record.
C28_ScoredItemsSettled ==
    /\ [](\A x \in scoring :
            \E r \in noticias :
               r.id = x.noticia_id /\ r.extraction_success /\ r.word_count > 50)
    /\ [][\A x \in scoring :
             /\ x \in scoring'
             /\ \A r \in noticias : r.id = x.noticia_id => r \in noticias']_vars

\* A second run has ended after scoring item 2 alone; item 1 has the scoring
\* row of the first run.
C28_Witness ==
    /\ run_no = 2
    /\ stage = "idle"
    /\ Len(summary) = 1
    /\ {x.noticia_id : x \in scoring} = {1, 2}
    /\ Len(attempted) = 1
    /\ attempted[1].id = 2

\* C29: the collect stage appends one CollectionRun for each source, in the
\* order of the sources; in every CollectionRun the collected items are the
\* new plus the duplicate ones, and the new ones are as many as the rows this
\* run created for the source (also when an insert of the source raised after
\* earlier inserts had succeeded).
C29_CollectionRunsConsistent ==
    /\ Len(coletas) <= Len(SourceOrder)
    /\ Len(stage_log) >= 2 => Len(coletas) = Len(SourceOrder)
    /\ \A i \in 1..Len(coletas) :
          LET c == coletas[i] IN
          /\ c.fonte = SourceOrder[i]
          /\ c.noticias_coletadas = c.noticias_novas + c.noticias_duplicadas
          /\ c.noticias_novas =
                Cardinality({r \in noticias : /\ r.fonte = SourceName(c.fonte)
                                              /\ r.data_coleta = run_no})

-----------------------------------------------------------------------------
(***************************************************************************)
(* Properties of the scorer                                                *)
(***************************************************************************)

\* The classes of relevance, lowest first.
RelevanceRank(r) ==
    CASE r = "Baixa" -> 0
      [] r = "Baixa-Média" -> 1
      [] r = "Média" -> 2
      [] r = "Alta" -> 3

\* C19: _classify_relevance returns 'Alta' for a score of 15 or more, 'Média'
\* from 8 up to 15, 'Baixa-Média' from 3 up to 8 and 'Baixa' below 3; of two
\* scores the higher never gets the lower class.
C19_ClassificationLadder ==
    /\ \A i \in 1..Len(classified) :
          LET s == classified[i].score
              r == classified[i].relevancia
          IN /\ s >= 15 => r = "Alta"
             /\ (8 <= s /\ s < 15) => r = "Média"
             /\ (3 <= s /\ s < 8) => r = "Baixa-Média"
             /\ s < 3 => r = "Baixa"
    /\ \A i, j \in 1..Len(classified) :
          classified[i].score <= classified[j].score =>
             RelevanceRank(classified[i].relevancia) <= RelevanceRank(classified[j].relevancia)

\* The scores 15 and 14 were classified one after the other.
C19_Witness ==
    /\ Len(classified) = 2
    /\ classified[1].score = 15 /\ classified[1].relevancia = "Alta"
    /\ classified[2].score = 14 /\ classified[2].relevancia = "Média"

\* The interest that the terms found among the rows 1..i add to axis a.
RECURSIVE InterestOf(_, _)
InterestOf(a, i) ==
    IF i = 0 THEN 0
    ELSE InterestOf(a, i - 1)
         + (IF dictionary_df[i].eixo = a THEN counts[i] * dictionary_df[i].peso_interesse
            ELSE 0)

\* C20: the primary axis score_content returns is an axis with a term found
\* in the text whose accumulated interest is the maximum among such axes; of
\* several axes with that maximum it is the one whose first found term comes
\* first in the dictionary; when no term is found it is empty.
C20_PrimaryAxis ==
    Len(resultado_scoring) = 1 =>
        LET found == {i \in 1..Len(dictionary_df) : counts[i] > 0}
            axes == {dictionary_df[i].eixo : i \in found}
            total(a) == InterestOf(a, Len(dictionary_df))
            first(a) == CHOOSE i \in found :
                           /\ dictionary_df[i].eixo = a
                           /\ \A j \in found : dictionary_df[j].eixo = a => i <= j
            p == resultado_scoring[1].eixo_principal
        IN IF found = {} THEN p = ""
           ELSE /\ p \in axes
                /\ \A b \in axes : total(b) <= total(p)
                /\ \A b \in axes \ {p} : total(b) = total(p) => first(p) < first(b)

\* Two axes have the same accumulated interest, built from three found terms,
\* and the axis of the first row is the primary one.
C20_Witness ==
    /\ Len(resultado_scoring) = 1
    /\ Len(dictionary_df) = 3
    /\ \A i \in 1..3 : counts[i] > 0
    /\ InterestOf("Economia", 3) = InterestOf("Saúde", 3)
    /\ dictionary_df[1].eixo = "Saúde"
    /\ resultado_scoring[1].eixo_principal = "Saúde"

\* C21: a term that has a space or whose tipo marks it as an expression is
\* counted wherever its characters occur in the text; any other term is
\* counted once for each place where it occurs with no word character right
\* before it and none right after it, so not inside a longer word.
C21_TermMatching ==
    termo_count >= 0 =>
        LET t == NormalizeText(Lower(texto))
            w == NormalizeText(Lower(termo_row.palavra_chave))
            n == Len(w)
            occ == {i \in 1..Len(t) : i + n - 1 <= Len(t) /\ SubSeq(t, i, i + n - 1) = w}
            whole == {i \in occ : /\ i = 1 \/ t[i - 1] = " "
                                  /\ i + n - 1 = Len(t) \/ t[i + n] = " "}
            phrase == termo_row.tipo = "expressão" \/ \E k \in 1..n : w[k] = " "
        IN IF phrase
           THEN /\ termo_count > 0 <=> occ # {}
                /\ termo_count <= Cardinality(occ)
           ELSE termo_count = Cardinality(whole)

\* The word "Lei" of the dictionary was looked for in "leite" and not found.
C21_Witness ==
    /\ termo_row = [palavra_chave |-> <<"L", "e", "i">>, tipo |-> "palavra"]
    /\ texto = <<"l", "e", "i", "t", "e">>
    /\ termo_count = 0

-----------------------------------------------------------------------------
(***************************************************************************)
(* Properties of the standalone entry point                                *)
(***************************************************************************)

\* C14: main() returns 0 for a skipped run and for a run whose summary has
\* sucesso = TRUE, and 1 only when the constructor raised or an exception left
\* a stage (the summary has sucesso = FALSE and the error). A source whose
\* scraper raised, an item whose step raised in a loop, a duplicate insert or
\* a missing dictionary leave the code at 0 unless such an exception occurred.
C14_ExitCodes ==
    /\ main_pc \in {"off", "check", "construct", "called"} => exit_code = -1
    /\ main_pc = "skipped" => (exit_code = 0 /\ run_no = 0)
    /\ main_pc = "exception" => (exit_code = 1 /\ run_no = 0)
    /\ main_pc = "returned" =>
          /\ Len(summary) = 1
          /\ exit_code \in {0, 1}
          /\ exit_code = 0 <=> summary[1].sucesso
          /\ exit_code = 1 =>
                summary[1].erro \in {"get_stats", "registrar_coleta",
                                      "get_noticias_sem_conteudo", "get_noticias_sem_scoring"}

\* main() returned 0 for a run without dictionary in which a scraper raised,
\* an insert hit a stored link and the extraction of an item raised.
C14_Witness ==
    /\ main_pc = "returned"
    /\ exit_code = 0
    /\ dictionary = "none"
    /\ \E s \in Sources : src_result[s] = "raised"
    /\ stats.coletadas > stats.novas
    /\ \E i \in 1..Len(attempted) : attempted[i].raised

\* C15: without --force main() goes on to the pipeline only from Monday to
\* Friday and only within 30 minutes of 12:00 or of 20:00 (Sao Paulo time);
\* at any other day or time it skips, returns 0 and no pipeline is built or
\* run. With --force it always goes on.
C15_WindowOnly ==
    [][main_pc = "check" =>
          LET t == agora.hour * 60 + agora.minute
              scheduled == /\ agora.weekday <= 4
                           /\ \/ (12 * 60 - 30 <= t /\ t <= 12 * 60 + 30)
                              \/ (20 * 60 - 30 <= t /\ t <= 20 * 60 + 30)
          IN /\ main_pc' = "construct" <=> (args.force \/ scheduled)
             /\ main_pc' = "skipped" <=> ~(args.force \/ scheduled)
             /\ main_pc' = "skipped" => (exit_code' = 0 /\ run_no' = 0)]_vars

\* C16: started with --dry-run, main() saves nothing: tables noticias and
\* scoring hold the rows they held when it started, and no row is appended
\* to table coletas.
C16_DryRunSavesNothing ==
    args.dry_run =>
        /\ coletas = <<>>
        /\ \E st \in PriorStores :
              /\ st.scoring = {}
              /\ noticias = st.noticias
              /\ noticia_seq = st.noticia_seq
              /\ scoring = st.scoring
              /\ scoring_seq = st.scoring_seq

====
